---------------------------- MODULE Spec2Model ----------------------------
(***************************************************************************)
(* A model of src/src/lib.rs: the WAD archive reader (WAD::new,            *)
(* WAD::change_map, WAD::read_map_lump_as) and the BSP traversal           *)
(* (BSP::new, BSP::update, BSP::render_bsp_node, BSP::render_sub_sector).  *)
(*                                                                         *)
(* Two specifications share the variables.  Spec explores change_map on    *)
(* archives with one or two map blocks; a decoded record is identified by  *)
(* the file offset its bytes were read from, so two arrays are equal       *)
(* exactly when they reinterpret the same bytes.  SpecBSP explores the     *)
(* traversal over published node / subsector / seg arrays whose records    *)
(* are given by their fields.                                              *)
(***************************************************************************)
EXTENDS Integers, Sequences, FiniteSets, TLC

VARIABLES
    directory,      \* WAD.directory: Vec<Directory>
    file_len,       \* length in bytes of WAD.file
    map_index,      \* WAD.map_index: <<>> is None, <<i>> is Some(i)
    things, line_defs, side_defs, vertexes, segs, ssectors, nodes, sectors,
    op,             \* the public operation performed last
    call,           \* the name passed to the last change_map
    result,         \* what the last change_map returned
    read,           \* what the last read of a geometry field yielded
    loaded,         \* some change_map has returned Ok(true)
    player,         \* Player.position
    root_node_id,   \* BSP.root_node_id
    stack,          \* the call frames of render_bsp_node
    trace,          \* nodes indexed, subsectors rendered, segs drawn so far
    phase,          \* where the BSP client stands
    error           \* the panic message when phase = "panic"

wadVars == <<directory, file_len, map_index, op, call, result, read, loaded>>
geoVars == <<things, line_defs, side_defs, vertexes, segs, ssectors, nodes, sectors>>
bspVars == <<player, root_node_id, stack, trace, phase, error>>
vars == <<wadVars, geoVars, bspVars>>

---------------------------------------------------------------------------
(* Bounds of the exploration. *)

\* Largest record count of a generated lump.
MaxRecs == 2

\* Longest node array explored.
MaxNodes == 2

\* Frames of render_bsp_node the call stack holds before it overflows.
StackLimit == 4

---------------------------------------------------------------------------
(* Program constants. *)

Things == 1
LineDefs == 2
SideDefs == 3
Vertexes == 4
Segs == 5
SSectors == 6
Nodes == 7
Sectors == 8

DIRECTORY_SIZE == 16
HEADER_SIZE == 12

\* std::mem::size_of::<T>() of the #[repr(C)] records, all fields i16 or u8.
SizeOfThing == 10
SizeOfLineDef == 14
SizeOfSideDef == 30
SizeOfVertex == 4
SizeOfSeg == 12
SizeOfSubSector == 4
SizeOfNode == 28
SizeOfSector == 26

\* The geometry fields of WAD in the order change_map assigns them.
Fields == <<"things", "line_defs", "side_defs", "vertexes",
            "segs", "ssectors", "nodes", "sectors">>

\* The lump change_map reads into each field, with the lines swapped for two
\* fields (a slip in the assignment list).
LumpForSwapped(f) ==
    CASE f = "things" -> Things
      [] f = "line_defs" -> SideDefs
      [] f = "side_defs" -> LineDefs
      [] f = "vertexes" -> Vertexes
      [] f = "segs" -> Segs
      [] f = "ssectors" -> SSectors
      [] f = "nodes" -> Nodes
      [] f = "sectors" -> Sectors

\* The MapLumpIndex change_map passes to read_map_lump_as for each field.
LumpFor(f) ==
    CASE f = "things" -> Things
      [] f = "line_defs" -> LineDefs
      [] f = "side_defs" -> SideDefs
      [] f = "vertexes" -> Vertexes
      [] f = "segs" -> Segs
      [] f = "ssectors" -> SSectors
      [] f = "nodes" -> Nodes
      [] f = "sectors" -> Sectors

\* size_of::<T>() of the element type of each field.
SizeOf(f) ==
    CASE f = "things" -> SizeOfThing
      [] f = "line_defs" -> SizeOfLineDef
      [] f = "side_defs" -> SizeOfSideDef
      [] f = "vertexes" -> SizeOfVertex
      [] f = "segs" -> SizeOfSeg
      [] f = "ssectors" -> SizeOfSubSector
      [] f = "nodes" -> SizeOfNode
      [] f = "sectors" -> SizeOfSector

\* The published array behind each public field.
Published(f) ==
    CASE f = "things" -> things
      [] f = "line_defs" -> line_defs
      [] f = "side_defs" -> side_defs
      [] f = "vertexes" -> vertexes
      [] f = "segs" -> segs
      [] f = "ssectors" -> ssectors
      [] f = "nodes" -> nodes
      [] f = "sectors" -> sectors

---------------------------------------------------------------------------
(* Names.  A stored name is the 8 bytes of Directory.name; a requested     *)
(* name is the &str passed to change_map, as its sequence of code points.  *)

slice_to_string(slice) == SelectSeq(slice, LAMBDA c : c # 0)

DirectoryName(dir) == slice_to_string(dir.name)

NameM1 == <<77, 49, 0, 0, 0, 0, 0, 0>>       \* "M1"
NameM2 == <<77, 50, 0, 0, 0, 0, 0, 0>>       \* "M2"
NameM1z == <<77, 0, 49, 0, 0, 0, 0, 0>>      \* "M", NUL, "1"
LumpName(k) == <<76, 48 + k, 0, 0, 0, 0, 0, 0>>   \* "L1" .. "L8"

\* "M1", "M2" and "NO", which no archive holds.
CallNames == { <<77, 49>>, <<77, 50>>, <<78, 79>> }

---------------------------------------------------------------------------
(* The archives explored: a header, the lump data of two map blocks laid   *)
(* out back to back, and the directory.  A block is a zero-size marker     *)
(* followed by the eight geometry lumps.  The first block is sound; at     *)
(* most one lump of the second is damaged: torn (one trailing byte after   *)
(* its last whole record) or lying past the end of the file; or the        *)
(* directory ends before it.  Either block may be loaded first.            *)

RecSizes == <<SizeOfThing, SizeOfLineDef, SizeOfSideDef, SizeOfVertex,
              SizeOfSeg, SizeOfSubSector, SizeOfNode, SizeOfSector>>

\* Bytes of lump k (1..8) of a block whose record counts start at base.
LumpBytes(base, k, torn) ==
    ((base + k) % (MaxRecs + 1)) * RecSizes[k] + (IF torn = k THEN 1 ELSE 0)

RECURSIVE BytesBefore(_, _, _)
BytesBefore(base, k, torn) ==
    IF k <= 1 THEN 0
    ELSE BytesBefore(base, k - 1, torn) + LumpBytes(base, k - 1, torn)

BlockBytes(base, torn) == BytesBefore(base, 9, torn)

\* The nine directory entries of one block whose data starts at byte start.
Block(nm, base, torn, start) ==
    <<[offset |-> start, size |-> 0, name |-> nm]>> \o
    [k \in 1..8 |-> [offset |-> start + BytesBefore(base, k, torn),
                     size |-> LumpBytes(base, k, torn),
                     name |-> LumpName(k)]]

Damages ==
    {[kind |-> "none", block |-> 1, lump |-> 0]}
    \cup [kind : {"torn", "eof"}, block : {2}, lump : 1..8]
    \cup [kind : {"cut"}, block : {2}, lump : 1..8]

\* The record counts of the second block start one after the first's.
ArchiveParams ==
    {[name1 |-> n1, name2 |-> n2, base1 |-> b, base2 |-> b + 1, damage |-> d] :
        n1 \in {NameM1, NameM1z}, n2 \in {NameM1, NameM2},
        b \in 0..MaxRecs, d \in Damages}

TornIn(p, b) == IF p.damage.kind = "torn" /\ p.damage.block = b
                THEN p.damage.lump ELSE 0

ArchiveEntries(p) ==
    LET t1 == TornIn(p, 1)
        t2 == TornIn(p, 2)
        whole == Block(p.name1, p.base1, t1, HEADER_SIZE) \o
                 Block(p.name2, p.base2, t2, HEADER_SIZE + BlockBytes(p.base1, t1))
    IN  IF p.damage.kind = "cut"
        THEN SubSeq(whole, 1, 9 + p.damage.lump - 1)
        ELSE whole

ArchiveLen(p) ==
    HEADER_SIZE + BlockBytes(p.base1, TornIn(p, 1)) + BlockBytes(p.base2, TornIn(p, 2))
    + DIRECTORY_SIZE * Len(ArchiveEntries(p))

\* The directory as read_directory leaves it; a lump "past the end" has an
\* offset equal to the file length.
ArchiveDirectory(p) ==
    LET es == ArchiveEntries(p)
        bad == IF p.damage.kind = "eof"
               THEN 9 * (p.damage.block - 1) + 1 + p.damage.lump ELSE 0
    IN  [i \in 1..Len(es) |->
            IF i = bad THEN [es[i] EXCEPT !.offset = ArchiveLen(p)] ELSE es[i]]

---------------------------------------------------------------------------
(* WAD *)

Ok(found) == [kind |-> "Ok", found |-> found, error |-> ""]
Err(msg) == [kind |-> "Err", found |-> FALSE, error |-> msg]
Panic(msg) == [kind |-> "Panic", found |-> FALSE, error |-> msg]
NoResult == [kind |-> "None", found |-> FALSE, error |-> ""]

\* read_map_lump: the bytes of directory[offset], as the range read.
read_map_lump(offset) ==
    IF offset >= Len(directory)
    THEN [kind |-> "Panic", error |-> "index out of bounds", offset |-> 0, len |-> 0]
    ELSE LET lump == directory[offset + 1] IN
         IF lump.size > 0 /\ lump.offset + lump.size > file_len
         THEN [kind |-> "Err", error |-> "UnexpectedEof", offset |-> 0, len |-> 0]
         ELSE [kind |-> "Ok", error |-> "", offset |-> lump.offset, len |-> lump.size]

\* let len = bytes.len() / std::mem::size_of::<T>()
RecordCount(bytes, size) == bytes \div size

\* read_map_lump_as::<T>(index) with self.map_index = mi.
read_map_lump_as(mi, index, size) ==
    IF mi = <<>>
    THEN [kind |-> "Err", error |-> "No map has been loaded.", data |-> <<>>]
    ELSE LET bytes == read_map_lump(mi[1] + index) IN
         IF bytes.kind # "Ok"
         THEN [kind |-> bytes.kind, error |-> bytes.error, data |-> <<>>]
         ELSE [kind |-> "Ok", error |-> "",
               data |-> [j \in 1..RecordCount(bytes.len, size) |->
                            bytes.offset + (j - 1) * size]]

\* The position of the first directory entry whose name() equals name.
FindMarker(name) ==
    LET hits == {i \in 1..Len(directory) : DirectoryName(directory[i]) = name}
    IN  IF hits = {} THEN <<>>
        ELSE <<(CHOOSE i \in hits : \A j \in hits : i <= j) - 1>>

\* A scan that stores its outcome whether or not it found the name.
MapIndexAfterScanAlways(m) == m

\* self.map_index after the scan: assigned only inside the matching branch.
MapIndexAfterScan(m) == IF m = <<>> THEN map_index ELSE m

\* What read_map_lump_as yields for the j-th field under map index m.
Load(m, j) == read_map_lump_as(m, LumpFor(Fields[j]), SizeOf(Fields[j]))

\* The first of the eight `?` that leaves change_map, 9 when none does.
FirstFail(m) ==
    LET bad == {j \in 1..8 : Load(m, j).kind # "Ok"}
    IN  IF bad = {} THEN 9 ELSE CHOOSE j \in bad : \A i \in bad : j <= i

\* Field j after change_map found the marker and its reads first failed at
\* ff: assigned when every read up to and including its own succeeded.
FieldAfter(m, j, ff) ==
    IF j < ff THEN Load(m, j).data ELSE Published(Fields[j])

ChangeMapResult(m, ff) ==
    IF m = <<>> THEN Ok(FALSE)
    ELSE IF ff = 9 THEN Ok(TRUE)
         ELSE LET r == Load(m, ff) IN
              IF r.kind = "Err" THEN Err(r.error) ELSE Panic(r.error)

Alive == result.kind # "Panic"

NotRead == [field |-> "", kind |-> "None", error |-> "", data |-> <<>>]

change_map(name) ==
    /\ Alive
    /\ LET m == FindMarker(name)
           ff == IF m = <<>> THEN 0 ELSE FirstFail(m)
           res == ChangeMapResult(m, ff)
       IN
       /\ map_index' = MapIndexAfterScan(m)
       /\ result' = res
       /\ loaded' = (loaded \/ res = Ok(TRUE))
       /\ IF m = <<>>
          THEN UNCHANGED geoVars
          ELSE /\ things' = FieldAfter(m, 1, ff)
               /\ line_defs' = FieldAfter(m, 2, ff)
               /\ side_defs' = FieldAfter(m, 3, ff)
               /\ vertexes' = FieldAfter(m, 4, ff)
               /\ segs' = FieldAfter(m, 5, ff)
               /\ ssectors' = FieldAfter(m, 6, ff)
               /\ nodes' = FieldAfter(m, 7, ff)
               /\ sectors' = FieldAfter(m, 8, ff)
    /\ op' = "change_map"
    /\ call' = name
    /\ read' = NotRead
    /\ UNCHANGED <<directory, file_len, bspVars>>

\* A client reading one of the public geometry fields.
ReadGeometry(f) ==
    /\ Alive
    /\ op' = "read"
    /\ read' = [field |-> f, kind |-> "Ok", error |-> "", data |-> Published(f)]
    /\ UNCHANGED <<directory, file_len, map_index, call, result, loaded,
                   geoVars, bspVars>>

\* WAD::new on each archive explored.
Init ==
    /\ \E p \in ArchiveParams :
          /\ directory = ArchiveDirectory(p)
          /\ file_len = ArchiveLen(p)
    /\ map_index = <<>>
    /\ things = <<>> /\ line_defs = <<>> /\ side_defs = <<>> /\ vertexes = <<>>
    /\ segs = <<>> /\ ssectors = <<>> /\ nodes = <<>> /\ sectors = <<>>
    /\ op = "new"
    /\ call = <<>>
    /\ result = NoResult
    /\ read = NotRead
    /\ loaded = FALSE
    /\ player = <<0, 0>>
    /\ root_node_id = 0
    /\ stack = <<>>
    /\ trace = <<>>
    /\ phase = "archive"
    /\ error = ""

Next ==
    \/ \E name \in CallNames : change_map(name)
    \/ \E j \in 1..8 : ReadGeometry(Fields[j])

Spec == Init /\ [][Next]_vars


---------------------------------------------------------------------------
(* BSP.  Integers of the source keep their meaning: a child reference is   *)
(* an i16 reinterpreted as u16 by `as u16`; usize values are kept by their *)
(* representative modulo 2^64, so usize::MAX is -1.                        *)

\* The identifier written as the mask 0x7FFF instead of the bit 0x8000.
sub_sector_identifier_mask == 32768 - 1

sub_sector_identifier == 32768

usize_max == 0 - 1

\* `v as u16` for an i16 or usize v.
AsU16(v) == v % 65536

Abs(n) == IF n < 0 THEN 0 - n ELSE n

\* The spacing of f32 values around the magnitude a (24-bit significand).
RECURSIVE Ulp(_)
Ulp(a) == IF a < 16777216 THEN 1 ELSE 2 * Ulp(a \div 2)

\* The f32 nearest to the integer n, ties to the even significand.
F32(n) ==
    LET a == Abs(n)
        u == Ulp(a)
        lo == (a \div u) * u
        r == a - lo
        m == IF 2 * r < u THEN lo
             ELSE IF 2 * r > u THEN lo + u
             ELSE IF (lo \div u) % 2 = 0 THEN lo ELSE lo + u
    IN  IF n < 0 THEN 0 - m ELSE m

\* The side test done with exact integers instead of f32.
is_on_back_side_exact(pos, node) ==
    (pos[1] - node.x_partition) * node.dy_partition
        - (pos[2] - node.y_partition) * node.dx_partition <= 0

\* BSP::is_on_back_side, every f32 operation rounded.
is_on_back_side(pos, node) ==
    LET dx == F32(F32(pos[1]) - F32(node.x_partition))
        dy == F32(F32(pos[2]) - F32(node.y_partition))
    IN  F32(F32(dx * F32(node.dy_partition)) - F32(dy * F32(node.dx_partition))) <= 0

\* The children in the order visited, the front child taken twice on the
\* front side (a copied line left unedited).
ChildrenFrontTwice(node, back) ==
    IF back THEN <<AsU16(node.back_child), AsU16(node.front_child)>>
    ELSE <<AsU16(node.front_child), AsU16(node.front_child)>>

\* The two recursive calls of render_bsp_node, in the order it makes them.
Children(node, back) ==
    IF back THEN <<AsU16(node.back_child), AsU16(node.front_child)>>
    ELSE <<AsU16(node.front_child), AsU16(node.back_child)>>

\* vec[i as usize] does not panic.
InBounds(i, vec) == 0 <= i /\ i < Len(vec)

Event(ev, id) == [ev |-> ev, id |-> id]

\* MapViewer::draw_segment(seg) indexes both vertexes before it draws.
DrawSegmentOk(seg) ==
    InBounds(seg.start_vertex, vertexes) /\ InBounds(seg.end_vertex, vertexes)

\* render_sub_sector(sub_sector_id): whether it returns, and what it did.
render_sub_sector(sub_sector_id) ==
    IF ~InBounds(sub_sector_id, ssectors)
    THEN [ok |-> FALSE, events |-> <<>>]
    ELSE LET ss == ssectors[sub_sector_id + 1]
             SegOk(i) == /\ InBounds(ss.first_seg + i, segs)
                         /\ DrawSegmentOk(segs[ss.first_seg + i + 1])
             bad == {i \in 0..(ss.num_segs - 1) : ~SegOk(i)}
             stop == IF bad = {} THEN ss.num_segs
                     ELSE CHOOSE i \in bad : \A j \in bad : i <= j
         IN  [ok |-> bad = {},
              events |-> <<Event("leaf", sub_sector_id)>> \o
                         [i \in 1..stop |-> Event("seg", ss.first_seg + i - 1)]]

Frame(node_id) == [node_id |-> node_id, pc |-> 0, back |-> FALSE]

Top == stack[Len(stack)]

SetTop(f) == [stack EXCEPT ![Len(stack)] = f]

Pop == SubSeq(stack, 1, Len(stack) - 1)

wadFrozen == <<wadVars, geoVars, player>>

\* BSP::new: root_node_id = nodes.len() - 1.  On an empty array the
\* subtraction overflows: a build with overflow checks panics, one without
\* wraps to usize::MAX.
BSP_new ==
    /\ phase = "published"
    /\ \/ /\ Len(nodes) > 0
          /\ root_node_id' = Len(nodes) - 1
          /\ phase' = "built"
          /\ UNCHANGED error
       \/ /\ Len(nodes) = 0
          /\ root_node_id' = usize_max
          /\ phase' = "built"
          /\ UNCHANGED error
       \/ /\ Len(nodes) = 0
          /\ phase' = "panic"
          /\ error' = "attempt to subtract with overflow"
          /\ UNCHANGED root_node_id
    /\ UNCHANGED <<wadFrozen, stack, trace>>

\* BSP::update, called once per frame by MapViewer::run.
update ==
    /\ phase \in {"built", "returned"}
    /\ stack' = <<Frame(AsU16(root_node_id))>>
    /\ trace' = <<>>
    /\ phase' = "running"
    /\ UNCHANGED <<wadFrozen, root_node_id, error>>

\* A call of render_bsp_node from the frame on top, or the stack overflow
\* that ends the process when the recursion is deeper than the stack.
CallChild(f, child) ==
    IF Len(stack) < StackLimit
    THEN /\ stack' = Append(SetTop(f), Frame(child))
         /\ UNCHANGED <<phase, error>>
    ELSE /\ stack' = SetTop(f)
         /\ phase' = "abort"
         /\ error' = "stack overflow"

\* render_bsp_node on a reference with the subsector bit: lines 405-410.
RenderLeaf ==
    /\ phase = "running" /\ Top.pc = 0
    /\ Top.node_id >= sub_sector_identifier
    /\ LET r == render_sub_sector(Top.node_id - sub_sector_identifier) IN
       /\ trace' = trace \o r.events
       /\ IF r.ok
          THEN /\ stack' = Pop
               /\ phase' = IF Len(stack) = 1 THEN "returned" ELSE "running"
               /\ UNCHANGED error
          ELSE /\ phase' = "panic"
               /\ error' = "index out of bounds"
               /\ UNCHANGED stack
    /\ UNCHANGED <<wadFrozen, root_node_id>>

\* render_bsp_node on a node index: the lookup, the side test and the first
\* recursive call (lines 412-415 or 412-418).
RenderNode ==
    /\ phase = "running" /\ Top.pc = 0
    /\ Top.node_id < sub_sector_identifier
    /\ IF InBounds(Top.node_id, nodes)
       THEN LET node == nodes[Top.node_id + 1]
                back == is_on_back_side(player, node)
            IN  /\ trace' = Append(trace, Event("node", Top.node_id))
                /\ CallChild([Top EXCEPT !.pc = 1, !.back = back],
                             Children(node, back)[1])
       ELSE /\ phase' = "panic"
            /\ error' = "index out of bounds"
            /\ UNCHANGED <<stack, trace>>
    /\ UNCHANGED <<wadFrozen, root_node_id>>

\* The second recursive call, once the first has returned.
RenderSecond ==
    /\ phase = "running" /\ Top.pc = 1
    /\ CallChild([Top EXCEPT !.pc = 2],
                 Children(nodes[Top.node_id + 1], Top.back)[2])
    /\ UNCHANGED <<wadFrozen, root_node_id, trace>>

\* render_bsp_node returns after its second call.
RenderReturn ==
    /\ phase = "running" /\ Top.pc = 2
    /\ stack' = Pop
    /\ phase' = IF Len(stack) = 1 THEN "returned" ELSE "running"
    /\ UNCHANGED <<wadFrozen, root_node_id, trace, error>>

render_bsp_node == RenderLeaf \/ RenderNode \/ RenderSecond \/ RenderReturn

(* The published maps explored.  Node arrays are all arrays of up to       *)
(* MaxNodes nodes over the child references below, well-formed or not,     *)
(* cyclic or not; the nodes carry the two partition lines in turn.  The    *)
(* subsector, seg and vertex arrays are one sound set, and one in which a  *)
(* subsector does not exist, a seg range runs past the seg array and a seg *)
(* names a vertex that does not exist.                                     *)

\* Node indices 0 and 1, and subsectors 0, 1 and 2 as i16 (0x8000 | n).
ChildRefs == {0, 1, 0 - 32768, 0 - 32767, 0 - 32766}

\* The partition line of node i: the x axis, or a long steep line on which
\* the products of the side test exceed the 24 bits of an f32 significand.
PartitionAt(i) ==
    IF i % 2 = 0 THEN [x |-> 0, y |-> 0, dx |-> 1, dy |-> 0]
    ELSE [x |-> 0, y |-> 0, dx |-> 4098, dy |-> 4097]

\* Viewpoints on, in front of and behind each of the two lines.
Viewpoints == { <<4097, 4096>>, <<0 - 2, 0 - 1>>, <<1, 0>>, <<1, 0 - 1>> }

Node(p, f, b) ==
    [x_partition |-> p.x, y_partition |-> p.y,
     dx_partition |-> p.dx, dy_partition |-> p.dy,
     front_child |-> f, back_child |-> b]

\* The node indices a reference chain from the root (the last node) reaches.
RECURSIVE ReachedFrom(_, _)
ReachedFrom(arr, seen) ==
    LET more == { r \in UNION { {arr[i + 1].front_child, arr[i + 1].back_child} :
                                  i \in seen } : 0 <= r /\ r < Len(arr) }
    IN  IF more \subseteq seen THEN seen ELSE ReachedFrom(arr, seen \cup more)

\* A node no chain reaches is never read: it is given one content only.
Canonical(arr) ==
    \A i \in (0..(Len(arr) - 1)) \ ReachedFrom(arr, {Len(arr) - 1} \cap Nat) :
        /\ arr[i + 1].front_child = 0 - 32768
        /\ arr[i + 1].back_child = 0 - 32768

NodeArrays ==
    UNION { { arr \in { [i \in 1..n |-> Node(PartitionAt(i - 1), c[i][1], c[i][2])] :
                          c \in [1..n -> ChildRefs \X ChildRefs] } :
                Canonical(arr) } : n \in 0..MaxNodes }

Seg(sv, ev) == [start_vertex |-> sv, end_vertex |-> ev]

SubSector(n, first) == [num_segs |-> n, first_seg |-> first]

Geometries ==
    { [ssectors |-> <<SubSector(1, 0), SubSector(1, 1), SubSector(2, 0)>>,
       segs |-> <<Seg(0, 1), Seg(1, 2)>>,
       vertexes |-> <<0, 4, 8>>],
      [ssectors |-> <<SubSector(1, 0), SubSector(2, 1)>>,
       segs |-> <<Seg(0, 3), Seg(1, 2)>>,
       vertexes |-> <<0, 4, 8>>] }

InitBSP ==
    /\ directory = <<>> /\ file_len = 0 /\ map_index = <<>>
    /\ op = "new" /\ call = <<>> /\ result = NoResult /\ read = NotRead
    /\ loaded = FALSE
    /\ things = <<>> /\ line_defs = <<>> /\ side_defs = <<>> /\ sectors = <<>>
    /\ nodes \in NodeArrays
    /\ \E g \in Geometries :
          /\ ssectors = g.ssectors
          /\ segs = g.segs
          /\ vertexes = g.vertexes
    /\ player \in Viewpoints
    /\ root_node_id = 0
    /\ stack = <<>>
    /\ trace = <<>>
    /\ phase = "published"
    /\ error = ""

NextBSP == BSP_new \/ update \/ render_bsp_node

SpecBSP == InitBSP /\ [][NextBSP]_vars

---------------------------------------------------------------------------
(* Properties of change_map and of the published arrays, under Spec. *)

\* No directory entry's name() equals name.
NoEntryNamed(name) ==
    \A i \in 1..Len(directory) : DirectoryName(directory[i]) # name

\* The entry the last change_map stopped at (0-based), when it found one.
FoundAt == FindMarker(call)

\* Lump j (1..8) after the entry at 0-based index m.
LumpAfter(m, j) == directory[m + j + 1]

\* The eight entries after m exist, each lies inside the file and each holds
\* a whole number of records of its type.
WellFormedBlock(m) ==
    /\ m + 8 < Len(directory)
    /\ \A j \in 1..8 :
          /\ LumpAfter(m, j).size % RecSizes[j] = 0
          /\ LumpAfter(m, j).offset + LumpAfter(m, j).size <= file_len

\* C1: a change_map that found its marker and returns an error leaves all
\* eight published arrays exactly as they were before the call.
C1_FailedLoadKeepsPublished ==
    [][(op' = "change_map" /\ result'.kind = "Err") => geoVars' = geoVars]_vars

\* C2: a change_map whose name no directory entry carries returns Ok(false)
\* and leaves the eight published arrays and the map index as they were.
C2_MissMutatesNothing ==
    [][(op' = "change_map" /\ NoEntryNamed(call'))
          => (/\ result' = Ok(FALSE)
              /\ geoVars' = geoVars
              /\ map_index' = map_index)]_vars

\* A miss (of "NO") right after a map with records was published.
C2_Witness ==
    /\ op = "change_map" /\ NoEntryNamed(call)
    /\ result = Ok(FALSE)
    /\ map_index # <<>> /\ loaded
    /\ nodes # <<>>

\* C3: after a change_map that found its marker in front of eight well-formed
\* lumps, the call returned Ok(true) and every published array holds as many
\* records as its own lump's byte size divided by its record size.
C3_WellFormedLoadPublishesLengths ==
    (op = "change_map" /\ FoundAt # <<>> /\ WellFormedBlock(FoundAt[1]))
        => /\ result = Ok(TRUE)
           /\ \A j \in 1..8 :
                 Len(Published(Fields[j])) * RecSizes[j]
                    = LumpAfter(FoundAt[1], j).size

\* The second block of an archive published, with records in its arrays.
C3_Witness ==
    /\ op = "change_map" /\ FoundAt = <<9>> /\ WellFormedBlock(9)
    /\ result = Ok(TRUE)
    /\ Len(segs) > 0 /\ Len(nodes) > 0 /\ Len(things) # Len(line_defs)

\* C4: typed decoding never drops bytes: whenever change_map decoded all
\* eight lumps, each array accounts for every byte of its lump (a lump with a
\* remainder makes the call fail).
C4_NoSilentTruncation ==
    (op = "change_map" /\ result = Ok(TRUE))
        => \A j \in 1..8 :
              Len(Published(Fields[j])) * RecSizes[j]
                 = LumpAfter(FoundAt[1], j).size

\* C8: until some change_map has returned Ok(true), reading a geometry array
\* fails with a StateError.
C8_ReadBeforeLoadIsStateError ==
    (op = "read" /\ ~loaded) => (read.kind = "Err" /\ read.error = "StateError")

\* A stored name with only its trailing NUL bytes stripped.
RECURSIVE TrimTrailingNul(_)
TrimTrailingNul(bytes) ==
    IF bytes # <<>> /\ bytes[Len(bytes)] = 0
    THEN TrimTrailingNul(SubSeq(bytes, 1, Len(bytes) - 1))
    ELSE bytes

\* The first entry (0-based) whose trimmed name equals name exactly.
FirstTrimmedMatch(name) ==
    LET hits == {i \in 1..Len(directory) : TrimTrailingNul(directory[i].name) = name}
    IN  IF hits = {} THEN <<>>
        ELSE <<(CHOOSE i \in hits : \A j \in hits : i <= j) - 1>>

\* C12: change_map(name) takes as marker the first directory entry whose
\* 8-byte name, with only its trailing NUL bytes stripped, equals name; an
\* entry with a NUL byte in front of a non-NUL byte is not taken, so a call
\* that only such an entry could answer reports a miss.
C12_MarkerIsFirstTrimmedMatch ==
    op = "change_map"
        => IF FirstTrimmedMatch(call) = <<>>
           THEN result = Ok(FALSE)
           ELSE map_index = FirstTrimmedMatch(call)

---------------------------------------------------------------------------
(* Properties of the traversal, under SpecBSP. *)

Ids(kind) ==
    LET es == SelectSeq(trace, LAMBDA e : e.ev = kind)
    IN  [i \in 1..Len(es) |-> es[i].id]

\* The subsectors rendered and the nodes looked up so far, in order.
LeafVisits == Ids("leaf")
NodeVisits == Ids("node")

Range(q) == { q[i] : i \in 1..Len(q) }

NoDup(q) == \A i, j \in 1..Len(q) : q[i] = q[j] => i = j

\* A subsector whose segs and whose segs' vertexes all exist.
SoundSubSector(id) ==
    /\ InBounds(id, ssectors)
    /\ \A i \in 0..(ssectors[id + 1].num_segs - 1) :
          /\ InBounds(ssectors[id + 1].first_seg + i, segs)
          /\ DrawSegmentOk(segs[ssectors[id + 1].first_seg + i + 1])

\* Every reference under ref is in range and no chain of nodes under it is
\* longer than fuel (a chain longer than the node array repeats a node).
RECURSIVE SoundUnder(_, _)
SoundUnder(ref, fuel) ==
    IF ref >= sub_sector_identifier
    THEN SoundSubSector(ref - sub_sector_identifier)
    ELSE /\ fuel > 0
         /\ InBounds(ref, nodes)
         /\ SoundUnder(AsU16(nodes[ref + 1].front_child), fuel - 1)
         /\ SoundUnder(AsU16(nodes[ref + 1].back_child), fuel - 1)

\* The references under a sound ref, front before back: nodes and leaves.
RECURSIVE RefsUnder(_)
RefsUnder(ref) ==
    IF ref >= sub_sector_identifier THEN <<ref>>
    ELSE <<ref>> \o RefsUnder(AsU16(nodes[ref + 1].front_child))
               \o RefsUnder(AsU16(nodes[ref + 1].back_child))

\* The node array is a tree rooted at its last node: references in range, no
\* cycle, no node and no subsector referenced twice.
WellFormedTree ==
    /\ Len(nodes) > 0
    /\ SoundUnder(Len(nodes) - 1, Len(nodes))
    /\ NoDup(RefsUnder(Len(nodes) - 1))

\* The subsectors reachable from the root of a well-formed tree.
ReachableSubSectors ==
    { r - sub_sector_identifier :
        r \in { x \in Range(RefsUnder(Len(nodes) - 1)) : x >= sub_sector_identifier } }

Traversing == phase \in {"running", "returned", "panic", "abort"}

\* C5: on a well-formed tree, from any viewpoint, the traversal does not
\* fail, renders no subsector twice and none that the root does not reach,
\* and has rendered every reachable subsector exactly once when it returns.
C5_EachReachableSubSectorOnce ==
    (WellFormedTree /\ Traversing)
        => /\ phase \in {"running", "returned"}
           /\ NoDup(LeafVisits)
           /\ Range(LeafVisits) \subseteq ReachableSubSectors
           /\ phase = "returned"
                 => /\ Range(LeafVisits) = ReachableSubSectors
                    /\ Len(LeafVisits) = Cardinality(ReachableSubSectors)

\* A finished traversal of a two-node tree with three subsectors in which the
\* back subtrees came first.
C5_Witness ==
    /\ WellFormedTree /\ phase = "returned"
    /\ Len(nodes) = 2 /\ Len(NodeVisits) = 2
    /\ Len(LeafVisits) = 3
    /\ LeafVisits # SelectSeq(RefsUnder(1), LAMBDA r : r >= sub_sector_identifier)

\* The order the claim gives: back child first exactly when cross <= 0.
ExactOrder(node) ==
    IF is_on_back_side_exact(player, node)
    THEN <<AsU16(node.back_child), AsU16(node.front_child)>>
    ELSE <<AsU16(node.front_child), AsU16(node.back_child)>>

\* C6: at every node whose first (second) recursive call is in progress, the
\* child being traversed is the back (front) child exactly when
\* cross = dx*dirY - dy*dirX <= 0, and the front (back) child when cross > 0.
C6_BackFirstIffCrossNotPositive ==
    \A i \in 1..(Len(stack) - 1) :
        stack[i].pc \in {1, 2}
            => stack[i + 1].node_id
                  = ExactOrder(nodes[stack[i].node_id + 1])[stack[i].pc]

\* C7: an out-of-range node, subsector, seg or vertex index ends the
\* traversal with a FormatError outcome, not with a panic.
C7_OutOfRangeIsFormatError ==
    error = "index out of bounds" => phase = "FormatError"

\* C9: the traversal looks up at most as many nodes as the array holds and
\* never recurses until the stack overflows.
C9_NodeVisitBudget ==
    Len(NodeVisits) <= Len(nodes) /\ error # "stack overflow"

\* C10: over an empty node array the root subtraction never underflows:
\* constructing the tree neither panics nor yields the wrapped index.
C10_EmptyNodesNoUnderflow ==
    (Len(nodes) = 0 /\ phase # "published")
        => /\ error # "attempt to subtract with overflow"
           /\ root_node_id # usize_max

\* v & 0x8000 != 0 and v & 0x7FFF for a 16-bit value v.
HighBitSet(v) == (v \div 32768) % 2 = 1
LowBits(v) == v % 32768

\* The child a node frame calls first and second, given the branch it took.
FirstChild(node, back) ==
    AsU16(IF back THEN node.back_child ELSE node.front_child)
SecondChild(node, back) ==
    AsU16(IF back THEN node.front_child ELSE node.back_child)

\* The call that handles v begins: render_bsp_node was entered with v.
Entered == phase = "running" /\ Top.pc = 0

\* A value with the high bit is handled as the leaf v & 0x7FFF: no node is
\* looked up, no call is made, and the subsector rendered is v & 0x7FFF.
HandledAsLeaf(v) ==
    /\ NodeVisits' = NodeVisits
    /\ Len(stack') <= Len(stack)
    /\ InBounds(LowBits(v), ssectors)
          => LeafVisits' = Append(LeafVisits, LowBits(v))

\* A value without the high bit is handled as node index v: no subsector is
\* rendered for it, node v is looked up and a call for its first child is
\* made (unless the call stack is exhausted).
HandledAsNode(v) ==
    /\ LeafVisits' = LeafVisits
    /\ InBounds(v, nodes)
          => /\ NodeVisits' = Append(NodeVisits, v)
             /\ phase' = "running"
                   => /\ Len(stack') = Len(stack) + 1
                      /\ stack'[Len(stack)].pc = 1
                      /\ stack'[Len(stack')]
                            = Frame(FirstChild(nodes[v + 1], stack'[Len(stack)].back))

\* Once the first child's call has returned, the other child is called.
OtherChildCalled ==
    (phase = "running" /\ Top.pc = 1 /\ phase' = "running")
        => /\ Len(stack') = Len(stack) + 1
           /\ stack'[Len(stack)].pc = 2
           /\ stack'[Len(stack')]
                 = Frame(SecondChild(nodes[Top.node_id + 1], Top.back))

\* The call for a node index returns only after both calls were made.
NodeReturnsAfterBoth ==
    (phase = "running" /\ Len(stack') < Len(stack) /\ ~HighBitSet(Top.node_id))
        => Top.pc = 2

\* C11: every 16-bit reference v the traversal reaches is dispatched on its
\* high bit: with v & 0x8000 != 0 it is handled as the leaf with subsector
\* index v & 0x7FFF and no node is looked up or recursed into for it; with
\* v & 0x8000 = 0 it is handled as node index v, and calls for both children
\* of that node are made before the call for v returns.
C11_HighBitSelectsLeafOrNode ==
    [][/\ Entered => IF HighBitSet(Top.node_id)
                     THEN HandledAsLeaf(Top.node_id)
                     ELSE HandledAsNode(Top.node_id)
       /\ OtherChildCalled
       /\ NodeReturnsAfterBoth]_vars

\* A finished traversal that looked up nodes 1 and 0 and rendered the leaves
\* 0x8001 and 0x8002 as subsectors 1 and 2.
C11_Witness ==
    /\ phase = "returned"
    /\ NodeVisits = <<1, 0>>
    /\ {1, 2} \subseteq Range(LeafVisits)
    /\ \E i \in 1..Len(nodes) :
          AsU16(nodes[i].front_child) = 32770 \/ AsU16(nodes[i].back_child) = 32770

===========================================================================
